---- MODULE Spec2Model ----
(***************************************************************************)
(* A model of the PureScript C++ runtime value type `any`                  *)
(* (purescript.hh / purescript.cc), debug build (DEBUG defined, so every   *)
(* assert is live) with the reference-counted backend (USE_GC undefined).  *)
(*                                                                         *)
(* A Value is a record [tag, val]: `tag` is the explicit discriminant and  *)
(* `val` the content of the one union member that is active for that tag.  *)
(* Reading another member of the union is undefined behaviour; the model   *)
(* yields a junk value chosen by the caller (ReadMember).                  *)
(***************************************************************************)
EXTENDS Integers, Sequences, FiniteSets, TLC

\* ---------------------------------------------------------------- bounds
MaxThunkDepth == 3
OperandDepth == 1
MaxStrLen == 2
MaxMapLen == 2
NumSlots == 3
NumPayloads == 2

\* ------------------------------------------------------- program constants
\* std::numeric_limits<int>::max() and min() of the 32-bit int, and the
\* limits of the 8-bit signed char.
INT_MAX == 2147483647
INT_MIN == -INT_MAX - 1
CHAR_MAX == 127
CHAR_MIN == -128

\* ------------------------------------------------------------------ values
Mk(tag, val) == [tag |-> tag, val |-> val]

Tags ==
  { "Thunk", "Integer", "Double", "Character", "Boolean", "StringLiteral",
    "Function", "EffFunction", "RawPointer", "String", "Map", "Data", "Array",
    "Closure", "EffClosure", "Pointer" }

\* The union member that is active for a tag.
MemberOf(tag) ==
  CASE tag = "Thunk" -> "t"
    [] tag = "Integer" -> "i"
    [] tag = "Double" -> "d"
    [] tag = "Character" -> "c"
    [] tag = "Boolean" -> "b"
    [] tag = "StringLiteral" -> "r"
    [] tag = "Function" -> "f"
    [] tag = "EffFunction" -> "e"
    [] tag = "RawPointer" -> "u"
    [] tag = "String" -> "s"
    [] tag = "Array" -> "a"
    [] tag = "Closure" -> "l"
    [] tag = "EffClosure" -> "k"
    [] OTHER -> "p"

\* The tags whose member is a managed<> handle.
HeapTags == { "String", "Array", "Closure", "EffClosure", "Map", "Data", "Pointer" }

\* A double is an exact fraction n/d, d > 0 (d = 0: an infinity or a NaN);
\* rounding is not modelled.
Abs(n) == IF n < 0 THEN -n ELSE n

RECURSIVE Gcd(_, _)
Gcd(a, b) == IF b = 0 THEN a ELSE Gcd(b, a % b)

Frac(n, d) ==
  IF d = 0 THEN [n |-> (IF n > 0 THEN 1 ELSE IF n < 0 THEN -1 ELSE 0), d |-> 0]
  ELSE LET g == Gcd(Abs(n), Abs(d))
           s == IF d < 0 THEN -1 ELSE 1
       IN  [n |-> (s * n) \div g, d |-> (s * d) \div g]

\* What a wrong-member read of the union yields: some value of that member's
\* type, chosen by the seed j.
JunkSeeds == {0, 1}

JunkVal(m, j) ==
  CASE m = "i" -> (IF j = 0 THEN 0 ELSE 1078530011)
    [] m = "d" -> (IF j = 0 THEN Frac(0, 1) ELSE Frac(7, 2))
    [] m = "c" -> (IF j = 0 THEN 0 ELSE 64)
    [] m = "b" -> (j = 1)
    [] m = "r" -> (IF j = 0 THEN << >> ELSE <<97>>)
    [] m = "s" -> (IF j = 0 THEN << >> ELSE <<98>>)
    [] OTHER -> j

ReadMember(v, m, j) == IF MemberOf(v.tag) = m THEN v.val ELSE JunkVal(m, j)

\* ------------------------------------------------------------------ thunks
\* A thunk is a code pointer `auto (*)(const as_thunk) -> const any&`.  The
\* code pointer [depth |-> n, target |-> v] is the n-th of a family of
\* functions: the first returns a reference to the static Value v, the n-th
\* a reference to the static Thunk Value holding the (n-1)-th.
ThunkFn(n, v) == [depth |-> n, target |-> v]

ThunkCall(t) ==
  IF t.depth = 1 THEN t.target ELSE Mk("Thunk", ThunkFn(t.depth - 1, t.target))

\* v behind a chain of n thunks (n = 0: v itself).
Wrap(n, v) == IF n = 0 THEN v ELSE Mk("Thunk", ThunkFn(n, v))

\* One pass of the while loop of any::unthunkVariant.
UnthunkStepOnce(a) ==
  IF a.tag = "Thunk" THEN [v |-> ThunkCall(a.val), n |-> 1] ELSE [v |-> a, n |-> 0]

\* any::unthunkVariant: [v |-> the Value referred to, n |-> thunk calls made].
RECURSIVE unthunkVariant(_)
unthunkVariant(a) ==
  IF a.tag = "Thunk"
  THEN LET r == unthunkVariant(ThunkCall(a.val)) IN [v |-> r.v, n |-> r.n + 1]
  ELSE [v |-> a, n |-> 0]

\* --------------------------------------------------------- host values
\* A value of the host language: ty names the C++ type, v its content.
H(ty, v) == [ty |-> ty, v |-> v]

\* The C-string a character buffer denotes: its characters up to the first NUL.
RECURSIVE CStr(_)
CStr(s) == IF s = << >> \/ Head(s) = 0 THEN << >> ELSE <<Head(s)>> \o CStr(Tail(s))

\* ----------------------------------------------------------- constructors
\* The mutant of Construct used by C1: bool is taken by the int overload.
ConstructBoolAsInt(ty, x) ==
  CASE ty = "bool" -> Mk("Integer", IF x THEN 1 ELSE 0)
    [] ty = "int" -> Mk("Integer", x)
    [] ty = "double" -> Mk("Double", x)
    [] ty = "char" -> Mk("Character", x)
    [] ty = "literal" -> Mk("StringLiteral", x)
    [] ty = "string" -> Mk("String", x)
    [] ty = "array" -> Mk("Array", x)
    [] ty = "map" -> Mk("Map", x)
    [] ty = "data" -> Mk("Data", x)
    [] ty = "pointer" -> Mk("Pointer", x)
    [] ty = "rawptr" -> Mk("RawPointer", x)
    [] OTHER -> Mk("RawPointer", 0)

\* any::any(...): the overload chosen by the source type ty fixes the tag.
Construct(ty, x) ==
  CASE ty = "int" -> Mk("Integer", x)
    [] ty = "double" -> Mk("Double", x)
    [] ty = "char" -> Mk("Character", x)
    [] ty = "bool" -> Mk("Boolean", x)
    [] ty = "literal" -> Mk("StringLiteral", x)
    [] ty = "string" -> Mk("String", x)
    [] ty = "array" -> Mk("Array", x)
    [] ty = "map" -> Mk("Map", x)
    [] ty = "data" -> Mk("Data", x)
    [] ty = "pointer" -> Mk("Pointer", x)
    [] ty = "fn" -> Mk("Function", x)
    [] ty = "closure" -> Mk("Closure", x)
    [] ty = "eff_fn" -> Mk("EffFunction", x)
    [] ty = "eff_closure" -> Mk("EffClosure", x)
    [] ty = "thunk" -> Mk("Thunk", x)
    [] ty = "rawptr" -> Mk("RawPointer", x)
    [] OTHER -> Mk("RawPointer", 0)   \* any(nullptr_t)

\* --------------------------------------------------------------- outcomes
\* What a call does: status "ok" (it returned val), "abort" (an assert
\* failed) or "trap" (a hardware trap of undefined arithmetic); thunks counts
\* the thunk code pointers called, calls the callables invoked.
NoVal == H("none", 0)

Ok(val, n) == [status |-> "ok", val |-> val, thunks |-> n, calls |-> 0]

Abort(n) == [status |-> "abort", val |-> NoVal, thunks |-> n, calls |-> 0]

Trap(n) == [status |-> "trap", val |-> NoVal, thunks |-> n, calls |-> 0]

\* ------------------------------------------------------------ extraction
\* RETURN_VALUE(TYPE, ACCESSOR, INDIRECTION)
ReturnValue(self, tag, ty) ==
  LET variant == unthunkVariant(self)
  IN  IF variant.v.tag # tag THEN Abort(variant.n)
      ELSE Ok(H(ty, variant.v.val), variant.n)

\* any::operator cstring
ExtractCString(self) ==
  LET variant == unthunkVariant(self)
  IN  IF variant.v.tag = "StringLiteral" THEN Ok(H("cstring", CStr(variant.v.val)), variant.n)
      ELSE IF variant.v.tag # "String" THEN Abort(variant.n)
      ELSE Ok(H("cstring", CStr(variant.v.val)), variant.n)

\* any::rawPointer: the assert reads this->tag, the return reads variant.u.
rawPointer(self) ==
  LET variant == unthunkVariant(self)
  IN  IF self.tag # "RawPointer" THEN Abort(variant.n)
      ELSE Ok(H("rawptr", variant.v.val), variant.n)

\* any::extractPointer(t), reached through cast<T>: t is TagHelper<T>::tag.
extractPointer(self, t) == ReturnValue(self, t, "object")

ExtractKinds ==
  { "int", "double", "bool", "char", "cstring", "array", "rawptr", "map", "data", "pointer" }

\* The tags an extraction accepts.
KindTags(kind) ==
  CASE kind = "int" -> {"Integer"}
    [] kind = "double" -> {"Double"}
    [] kind = "bool" -> {"Boolean"}
    [] kind = "char" -> {"Character"}
    [] kind = "cstring" -> {"StringLiteral", "String"}
    [] kind = "array" -> {"Array"}
    [] kind = "rawptr" -> {"RawPointer"}
    [] kind = "map" -> {"Map"}
    [] kind = "data" -> {"Data"}
    [] OTHER -> {"Pointer"}

\* The conversion operators, rawPointer and cast<T>.
Extract(kind, self) ==
  CASE kind = "int" -> ReturnValue(self, "Integer", "int")
    [] kind = "double" -> ReturnValue(self, "Double", "double")
    [] kind = "bool" -> ReturnValue(self, "Boolean", "bool")
    [] kind = "char" -> ReturnValue(self, "Character", "char")
    [] kind = "cstring" -> ExtractCString(self)
    [] kind = "array" -> ReturnValue(self, "Array", "array")
    [] kind = "rawptr" -> rawPointer(self)
    [] kind = "map" -> extractPointer(self, "Map")
    [] kind = "data" -> extractPointer(self, "Data")
    [] OTHER -> extractPointer(self, "Pointer")

\* ------------------------------------------------------ native operations
CmpOps == { "==", "!=", "<", "<=", ">", ">=" }

ArithOps == { "+", "-", "*", "/", "%" }

\* x op y on integers (int, and char after integral promotion).
IntCmp(op, x, y) ==
  CASE op = "==" -> x = y
    [] op = "!=" -> x # y
    [] op = "<" -> x < y
    [] op = "<=" -> x <= y
    [] op = ">" -> x > y
    [] OTHER -> x >= y

BoolInt(b) == IF b THEN 1 ELSE 0

\* x op y on doubles.
DoubleCmp(op, x, y) == IntCmp(op, x.n * y.d, y.n * x.d)

UChar(c) == c % 256

\* The i-th unsigned char of a C-string, its terminator included.
CharAt(s, i) == IF i > Len(s) THEN 0 ELSE UChar(s[i])

\* strcmp: the sign of the first difference, as unsigned char, up to the
\* terminator.
RECURSIVE StrcmpFrom(_, _, _)
StrcmpFrom(s, t, i) ==
  IF CharAt(s, i) # CharAt(t, i) THEN (IF CharAt(s, i) < CharAt(t, i) THEN -1 ELSE 1)
  ELSE IF CharAt(s, i) = 0 THEN 0
  ELSE StrcmpFrom(s, t, i + 1)

strcmp(s, t) == StrcmpFrom(s, t, 1)

\* C++ integer division and remainder: the quotient truncates toward zero.
TruncDiv(x, y) ==
  IF (x >= 0) = (y > 0) THEN Abs(x) \div Abs(y) ELSE -(Abs(x) \div Abs(y))

TruncRem(x, y) == x - y * TruncDiv(x, y)

\* x op y does not fit an int (the tests themselves stay within int).
AddOverflows(x, y) == (y > 0 /\ x > INT_MAX - y) \/ (y < 0 /\ x < INT_MIN - y)

SubOverflows(x, y) == (y < 0 /\ x > INT_MAX + y) \/ (y > 0 /\ x < INT_MIN + y)

\* The largest magnitude m with m * y no less than INT_MIN, for y > 1.
NegLimit(y) == (INT_MAX \div y) + (IF INT_MAX % y = y - 1 THEN 1 ELSE 0)

MulOverflows(x, y) ==
  /\ x \notin {0, 1, -1} /\ y \notin {0, 1, -1}
  /\ IF (x > 0) = (y > 0) THEN Abs(x) > INT_MAX \div Abs(y)
     ELSE Abs(x) > NegLimit(Abs(y))

IntOverflows(op, x, y) ==
  CASE op = "+" -> AddOverflows(x, y)
    [] op = "-" -> SubOverflows(x, y)
    [] op = "*" -> MulOverflows(x, y)
    [] OTHER -> x = INT_MIN /\ y = -1

\* char(n): the narrowing conversion of an int to the 8-bit signed char.
WrapChar(n) == ((n - CHAR_MIN) % (CHAR_MAX - CHAR_MIN + 1)) + CHAR_MIN

\* x op y before any narrowing; y # 0 for / and %.
IntOp(op, x, y) ==
  CASE op = "+" -> x + y
    [] op = "-" -> x - y
    [] op = "*" -> x * y
    [] op = "/" -> TruncDiv(x, y)
    [] OTHER -> TruncRem(x, y)

\* `return lhs.i op rhs.i`: division by zero and signed overflow are
\* undefined; the seed j picks a trap or a junk result for the division, a
\* junk result for the overflow.
IntArith(op, x, y, j, n) ==
  IF op \in {"/", "%"} /\ (y = 0 \/ IntOverflows(op, x, y))
  THEN (IF j = 0 THEN Trap(n) ELSE Ok(Mk("Integer", JunkVal("i", j)), n))
  ELSE IF IntOverflows(op, x, y) THEN Ok(Mk("Integer", JunkVal("i", j)), n)
  ELSE Ok(Mk("Integer", IntOp(op, x, y)), n)

\* The mutant of CharArith used by C5: the result is not narrowed to char.
CharArithNoNarrow(op, x, y, j, n) ==
  IF op \in {"/", "%"} /\ y = 0
  THEN (IF j = 0 THEN Trap(n) ELSE Ok(Mk("Character", JunkVal("c", j)), n))
  ELSE Ok(Mk("Character", IntOp(op, x, y)), n)

\* `return any(char(lhs.c op rhs.c))`
CharArith(op, x, y, j, n) ==
  IF op \in {"/", "%"} /\ y = 0
  THEN (IF j = 0 THEN Trap(n) ELSE Ok(Mk("Character", JunkVal("c", j)), n))
  ELSE Ok(Mk("Character", WrapChar(IntOp(op, x, y))), n)

\* `return lhs.d op rhs.d` (no % on doubles)
DoubleArith(op, x, y, n) ==
  Ok(Mk("Double",
        CASE op = "+" -> Frac(x.n * y.d + y.n * x.d, x.d * y.d)
          [] op = "-" -> Frac(x.n * y.d - y.n * x.d, x.d * y.d)
          [] op = "*" -> Frac(x.n * y.n, x.d * y.d)
          [] OTHER -> Frac(x.n * y.d, x.d * y.n)), n)

\* ---------------------------------------------------- comparison operators
StringTags == { "StringLiteral", "String" }

\* The mutant of RhsCStr used by C3: rhs.r is read whatever rhs holds.
RhsCStrAlwaysLiteral(rhs, j) == CStr(ReadMember(rhs, "r", j))

\* `rhs.type == StringLiteral ? rhs.r : rhs.s->c_str()`
RhsCStr(rhs, j) ==
  IF rhs.tag = "StringLiteral" THEN CStr(ReadMember(rhs, "r", j))
  ELSE CStr(ReadMember(rhs, "s", j))

\* The address a managed<void> member holds; Map and Data share the member p
\* with Pointer, their address is not part of the model.
ReadPointer(v, j) == IF v.tag = "Pointer" THEN v.val ELSE JunkVal("p", j)

\* DEFINE_COMPARISON_OPERATOR(op)
Compare(op, lhs_, rhs_, j) ==
  LET l == unthunkVariant(lhs_)
      r == unthunkVariant(rhs_)
      lhs == l.v
      rhs == r.v
      n == l.n + r.n
  IN  CASE lhs.tag = "Integer" -> Ok(H("bool", IntCmp(op, lhs.val, ReadMember(rhs, "i", j))), n)
        [] lhs.tag = "Double" -> Ok(H("bool", DoubleCmp(op, lhs.val, ReadMember(rhs, "d", j))), n)
        [] lhs.tag = "Character" -> Ok(H("bool", IntCmp(op, lhs.val, ReadMember(rhs, "c", j))), n)
        [] lhs.tag = "Boolean" ->
             Ok(H("bool", IntCmp(op, BoolInt(lhs.val), BoolInt(ReadMember(rhs, "b", j)))), n)
        [] lhs.tag \in StringTags ->
             IF rhs.tag \notin StringTags THEN Abort(n)
             ELSE Ok(H("bool", IntCmp(op, strcmp(CStr(lhs.val), RhsCStr(rhs, j)), 0)), n)
        [] lhs.tag = "Pointer" -> Ok(H("bool", IntCmp(op, lhs.val, ReadPointer(rhs, j))), n)
        [] OTHER -> Abort(n)

\* ---------------------------------------------------- arithmetic operators
\* The std::string operand of a concatenation: std::string(v.r), or *v.s.
StrOf(v) == IF v.tag = "StringLiteral" THEN CStr(v.val) ELSE v.val

\* operator+(const any&, const any&)
Plus(lhs_, rhs_, j) ==
  LET l == unthunkVariant(lhs_)
      r == unthunkVariant(rhs_)
      lhs == l.v
      rhs == r.v
      n == l.n + r.n
  IN  CASE lhs.tag = "Integer" -> IntArith("+", lhs.val, ReadMember(rhs, "i", j), j, n)
        [] lhs.tag = "Double" -> DoubleArith("+", lhs.val, ReadMember(rhs, "d", j), n)
        [] lhs.tag = "Character" -> CharArith("+", lhs.val, ReadMember(rhs, "c", j), j, n)
        [] lhs.tag \in StringTags ->
             IF rhs.tag \notin StringTags THEN Abort(n)
             ELSE Ok(Mk("String", StrOf(lhs) \o StrOf(rhs)), n)
        [] OTHER -> Abort(n)

\* operator-, operator*, operator/, operator%(const any&, const any&)
MinusTimesDivMod(op, lhs_, rhs_, j) ==
  LET l == unthunkVariant(lhs_)
      r == unthunkVariant(rhs_)
      lhs == l.v
      rhs == r.v
      n == l.n + r.n
  IN  IF lhs.tag # rhs.tag THEN Abort(n)
      ELSE CASE lhs.tag = "Integer" -> IntArith(op, lhs.val, rhs.val, j, n)
             [] lhs.tag = "Double" /\ op # "%" -> DoubleArith(op, lhs.val, rhs.val, n)
             [] lhs.tag = "Character" -> CharArith(op, lhs.val, rhs.val, j, n)
             [] OTHER -> Abort(n)

Arith(op, lhs_, rhs_, j) ==
  IF op = "+" THEN Plus(lhs_, rhs_, j) ELSE MinusTimesDivMod(op, lhs_, rhs_, j)

\* operator-(const any&), unary negate; -INT_MIN overflows.
Negate(rhs_, j) ==
  LET r == unthunkVariant(rhs_)
      rhs == r.v
  IN  CASE rhs.tag = "Integer" ->
             IF rhs.val = INT_MIN THEN Ok(Mk("Integer", JunkVal("i", j)), r.n)
             ELSE Ok(Mk("Integer", -rhs.val), r.n)
        [] rhs.tag = "Double" -> Ok(Mk("Double", Frac(-rhs.val.n, rhs.val.d)), r.n)
        [] OTHER -> Abort(r.n)

\* ------------------------------------------------------------------- maps
\* A map<N> in memory: its entries [first |-> symbol, second |-> Value] in
\* order, the last one the sentinel, whose symbol is null.
NullSymbol == 0

invalid_key == Mk("RawPointer", 0)

\* The mutant of MapScan used by C4: a while loop that tests the entry for
\* the key before it tests it for the sentinel.
RECURSIVE MapScanMatchingSentinel(_, _, _)
MapScanMatchingSentinel(m, i, key) ==
  IF m[i].first = key THEN i
  ELSE IF m[i].first = NullSymbol THEN 0
  ELSE MapScanMatchingSentinel(m, i + 1, key)

\* do { if (m[i].first == key) return ...; } while (m[++i].first != nullptr);
\* the index of the entry found, 0 when the loop ends.
RECURSIVE MapScan(_, _, _)
MapScan(m, i, key) ==
  IF m[i].first = key THEN i
  ELSE IF m[i + 1].first = NullSymbol THEN 0
  ELSE MapScan(m, i + 1, key)

\* any::operator[](const symbol_t), map::get(key, a)
MapGet(self, key) ==
  LET c == extractPointer(self, "Map")
  IN  IF c.status # "ok" THEN c
      ELSE IF MapScan(c.val.v, 1, key) = 0 THEN Abort(c.thunks)
      ELSE Ok(c.val.v[MapScan(c.val.v, 1, key)].second, c.thunks)

\* any::contains
contains(self, key) ==
  LET c == extractPointer(self, "Map")
  IN  IF c.status # "ok" THEN c
      ELSE Ok(H("bool", MapScan(c.val.v, 1, key) # 0), c.thunks)

\* --------------------------------------------------------------- indexing
\* any::operator[](const size_t): xs[rhs] is unchecked; past the end it
\* yields whatever the seed picks.
IndexAt(self, i, j) ==
  LET c == ReturnValue(self, "Array", "array")
  IN  IF c.status # "ok" THEN c
      ELSE IF i >= 0 /\ i < Len(c.val.v) THEN Ok(c.val.v[i + 1], c.thunks)
      ELSE Ok(Mk("Integer", JunkVal("i", j)), c.thunks)

\* any::operator[](const any&): xs[cast<int>(rhs)]
IndexAny(self, rhs, j) ==
  LET c == ReturnValue(self, "Array", "array")
      k == ReturnValue(rhs, "Integer", "int")
  IN  IF c.status # "ok" THEN c
      ELSE IF k.status # "ok" THEN Abort(c.thunks + k.thunks)
      ELSE [IndexAt(self, k.val.v, j) EXCEPT !.thunks = c.thunks + k.thunks]

\* -------------------------------------------------------------- callables
\* The computations wrapped by the callables of the model: a code pointer
\* (Function, EffFunction) and a closure object (Closure, EffClosure) are
\* named by the computation they run.
Fns == { "identity", "three" }

EffFns == { "null", "three" }

\* The body of a one-argument computation.
Lambda(c, arg) == IF c = "identity" THEN arg ELSE Mk("Integer", 3)

\* The body of a zero-argument computation.
EffLambda(c) == IF c = "null" THEN Mk("RawPointer", 0) ELSE Mk("Integer", 3)

Called(val, n) == [status |-> "ok", val |-> val, thunks |-> n, calls |-> 1]

\* The mutant of Call1 used by C9: the tag is tested before forcing.
Call1Unforced(self, arg) ==
  IF self.tag = "Closure" THEN Called(Lambda(self.val, arg), 0)
  ELSE IF self.tag # "Function" THEN Abort(0)
  ELSE Called(Lambda(self.val, arg), 0)

\* any::operator()(const any&)
Call1(self, arg) ==
  LET variant == unthunkVariant(self)
  IN  IF variant.v.tag = "Closure" THEN Called(Lambda(variant.v.val, arg), variant.n)
      ELSE IF variant.v.tag # "Function" THEN Abort(variant.n)
      ELSE Called(Lambda(variant.v.val, arg), variant.n)

\* any::operator()(const as_thunk): one call of the thunk's code pointer.
AsThunk(self) ==
  IF self.tag # "Thunk" THEN Abort(0) ELSE Ok(ThunkCall(self.val), 1)

\* any::operator()()
Call0(self) ==
  LET variant == unthunkVariant(self)
  IN  IF variant.v.tag = "EffClosure" THEN Called(EffLambda(variant.v.val), variant.n)
      ELSE IF variant.v.tag # "EffFunction" THEN Abort(variant.n)
      ELSE Called(EffLambda(variant.v.val), variant.n)

\* ------------------------------------------- Value-to-native operators
\* The native types the operators are overloaded against.
NativeTypes == { "int", "double", "char", "bool", "cstring" }

\* The operators declared for a native type.
NativeOps(ty) ==
  CASE ty = "bool" -> CmpOps
    [] ty = "cstring" -> CmpOps \cup {"+"}
    [] ty = "double" -> CmpOps \cup (ArithOps \ {"%"})
    [] OTHER -> CmpOps \cup ArithOps

\* The tag of Value(n) for a native n of type ty (a C-string constant is a
\* string literal).
NativeTag(ty) ==
  CASE ty = "int" -> "Integer"
    [] ty = "double" -> "Double"
    [] ty = "char" -> "Character"
    [] ty = "bool" -> "Boolean"
    [] OTHER -> "StringLiteral"

\* The result of an arithmetic operator as the host value of type ty.
HostOf(ty, o) == IF o.status = "ok" THEN Ok(H(ty, o.val.val), o.thunks) ELSE o

\* x op y on two native values of type ty; the result converted to rty.
NativeOp(o, ty, x, y, j, n) ==
  IF o \in CmpOps
  THEN Ok(H("bool", CASE ty = "double" -> DoubleCmp(o, x, y)
                      [] ty = "bool" -> IntCmp(o, BoolInt(x), BoolInt(y))
                      [] OTHER -> IntCmp(o, x, y)), n)
  ELSE HostOf(ty, CASE ty = "int" -> IntArith(o, x, y, j, n)
                    [] ty = "char" -> CharArith(o, x, y, j, n)
                    [] OTHER -> DoubleArith(o, x, y, n))

\* DEFINE_OPERATOR(op, ty, rty): `(ty)lhs op rhs` for side "vn", `lhs op
\* (ty)rhs` for side "nv"; v is the Value operand, c the native one.
DefineOperator(o, ty, side, v, c, j) ==
  LET e == Extract(ty, v)
  IN  IF e.status # "ok" THEN e
      ELSE IF side = "vn" THEN NativeOp(o, ty, e.val.v, c, j, e.thunks)
      ELSE NativeOp(o, ty, c, e.val.v, j, e.thunks)

\* DEFINE_CSTR_EQUALS_OPERATOR: operator==(const any&, const char *) and
\* operator==(const char *, const any&); equal pointers are equal strings.
CStrEquals(v_, c) ==
  LET u == unthunkVariant(v_)
  IN  IF u.v.tag \notin StringTags THEN Abort(u.n)
      ELSE Ok(H("bool", strcmp(CStr(u.v.val), c) = 0), u.n)

\* DEFINE_CSTR_COMPARISON_OPERATOR(op)
CStrCompare(o, side, v, c) ==
  LET e == ExtractCString(v)
  IN  IF e.status # "ok" THEN e
      ELSE IF side = "vn" THEN Ok(H("bool", IntCmp(o, strcmp(e.val.v, c), 0)), e.thunks)
      ELSE Ok(H("bool", IntCmp(o, strcmp(c, e.val.v), 0)), e.thunks)

\* operator+(const any&, const char *) and operator+(const char *, const any&)
CStrPlus(side, v_, c) ==
  LET u == unthunkVariant(v_)
  IN  IF u.v.tag \notin StringTags THEN Abort(u.n)
      ELSE IF side = "vn" THEN Ok(H("string", StrOf(u.v) \o c), u.n)
      ELSE Ok(H("string", c \o StrOf(u.v)), u.n)

\* v op c (side "vn") or c op v (side "nv"), c a native constant of type ty.
Native(o, ty, side, v, c, j) ==
  IF ty # "cstring" THEN DefineOperator(o, ty, side, v, c, j)
  ELSE IF o = "==" THEN CStrEquals(v, c)
  ELSE IF o = "+" THEN CStrPlus(side, v, c)
  ELSE CStrCompare(o, side, v, c)

\* ----------------------------------------------------------- sample inputs
Alphabet == { 97, 98 }

\* The NUL-free character sequences of up to MaxStrLen characters.
Strings == UNION { [1..n -> Alphabet] : n \in 0..MaxStrLen }

Symbols == { 1, 2, 3 }

Injective(ks) == \A i, k \in 1..Len(ks) : ks[i] = ks[k] => i = k

KeySeqs == { ks \in UNION { [1..n -> Symbols] : n \in 1..MaxMapLen } : Injective(ks) }

\* The memory of a map with the keys ks, in order, and its sentinel.
MapOf(ks) ==
  [i \in 1..(Len(ks) + 1) |->
     IF i <= Len(ks) THEN [first |-> ks[i], second |-> Mk("Integer", 10 * i + ks[i])]
     ELSE [first |-> NullSymbol, second |-> invalid_key]]

Maps == { MapOf(ks) : ks \in KeySeqs }

IntVals == { -7, 0, 2, 3, 4, 7, INT_MAX }

DoubleVals == { Frac(-1, 2), Frac(0, 1), Frac(3, 2), Frac(5, 2) }

CharVals == { -3, 0, 2, 97, 98 }

Arrays == { << >>, << Mk("Integer", 1), Mk("Integer", 2), Mk("Integer", 3) >> }

DataVals == { << Mk("Integer", 0), Mk("Boolean", TRUE) >> }

Addresses == { 1, 2 }

\* The contents a Value of a tag is given in the model (Thunk: see Wrap).
ValsOf(tag) ==
  CASE tag = "Integer" -> IntVals
    [] tag = "Double" -> DoubleVals
    [] tag = "Character" -> CharVals
    [] tag = "Boolean" -> BOOLEAN
    [] tag \in StringTags -> Strings
    [] tag \in {"Function", "Closure"} -> Fns
    [] tag \in {"EffFunction", "EffClosure"} -> EffFns
    [] tag = "RawPointer" -> {0} \cup Addresses
    [] tag = "Map" -> Maps
    [] tag = "Data" -> DataVals
    [] tag = "Array" -> Arrays
    [] OTHER -> Addresses

BaseTags == Tags \ {"Thunk"}

\* One content per tag, for the operand pairs of differing tags.
RepOf(tag) == CHOOSE v \in ValsOf(tag) : TRUE

SameFamily(s, t) == s = t \/ (s \in StringTags /\ t \in StringTags)

\* The source types of the constructors that have an extraction, with the
\* extraction that returns the same host type.
SourceTypes ==
  { "int", "double", "char", "bool", "literal", "string", "array", "rawptr", "null",
    "map", "data", "pointer" }

KindOf(ty) ==
  CASE ty \in {"literal", "string"} -> "cstring"
    [] ty = "null" -> "rawptr"
    [] OTHER -> ty

\* The host type that extraction returns.
HostTy(ty) == IF ty \in {"map", "data", "pointer"} THEN "object" ELSE KindOf(ty)

HostVals(ty) ==
  CASE ty = "int" -> IntVals \cup {INT_MIN}
    [] ty = "double" -> DoubleVals
    [] ty = "char" -> CharVals \cup {CHAR_MIN, CHAR_MAX}
    [] ty = "bool" -> BOOLEAN
    [] ty \in {"literal", "string"} -> Strings
    [] ty = "array" -> Arrays
    [] ty = "rawptr" -> {0} \cup Addresses
    [] ty = "null" -> {0}
    [] ty = "map" -> Maps
    [] ty = "data" -> DataVals
    [] OTHER -> Addresses

\* ------------------------------------------------------------------ state
VARIABLES
  op,     \* the last call: its name, operator or kind, operands and input
  out,    \* what the call did
  slots,  \* the storage of NumSlots objects of class any
  heap,   \* the payloads the managed<> handles refer to
  last    \* the last construction, assignment or destruction

vars == << op, out, slots, heap, last >>

callVars == << op, out >>

lifeVars == << slots, heap, last >>

Nil == Mk("-", 0)

\* The record of a call: a and b are the operands once forced, da and db the
\* lengths of the thunk chains the call was given them behind.
OpRec(name, sub, a, da, b, db, x) ==
  [name |-> name, sub |-> sub, a |-> a, da |-> da, b |-> b, db |-> db, x |-> x]

\* -------------------------------------------------- storage and payloads
\* A slot is the storage of one object of class any: live between its
\* construction and its destruction, its val a handle (the number of a
\* payload, 0 for an empty handle) when the tag is one of HeapTags.
Slots == 1..NumSlots

Payloads == 1..NumPayloads

Dead == [live |-> FALSE, tag |-> "-", val |-> 0]

\* A payload: the tag it was made for, its reference count, how many times
\* it has been released, and the handle held by the Value stored inside it
\* (an element of an Array; 0: none).
Unallocated == [tag |-> "-", rc |-> 0, freed |-> 0, elem |-> 0]

NoLife ==
  [name |-> "none", dst |-> 0, src |-> 0, h |-> 0, rc |-> 0, old |-> 0, oldrc |-> 0,
   thunks |-> 0]

\* The payload a Value refers to (0: none).
HandleOf(v) == IF v.tag \in HeapTags THEN v.val ELSE 0

RcOf(hp, h) == IF h = 0 THEN 0 ELSE hp[h].rc

\* managed<T>(const managed<T>&): the copy shares the payload.
ManagedCopy(hp, h) == IF h = 0 THEN hp ELSE [hp EXCEPT ![h].rc = @ + 1]

\* ~managed<T>(): the last handle to go releases the payload, which destroys
\* the Value stored inside it.
RECURSIVE ManagedRelease(_, _)
ManagedRelease(hp, h) ==
  IF h = 0 THEN hp
  ELSE LET q == [hp EXCEPT ![h].rc = @ - 1, ![h].freed = IF hp[h].rc = 1 THEN @ + 1 ELSE @]
       IN  IF hp[h].rc = 1 THEN ManagedRelease(q, hp[h].elem) ELSE q

\* move_if_rvalue<T>(other.s), T the type assign was instantiated with.  With
\* T a reference the second overload returns U&.  With T not a reference the
\* first overload is chosen, its parameter U&& a forwarding reference bound
\* to the lvalue other.s: U is deduced as managed<X>&, the return type U&&
\* collapses to managed<X>&.  Either way the result is an lvalue.
move_if_rvalue(tIsReference) == IF tIsReference THEN "lvalue" ELSE "lvalue"

\* any::assign(T&& other) on the object in slot d, other the object in slot
\* s: the scalar members are assigned, the managed<> members are constructed
\* in place from move_if_rvalue<T>(other.member).  The result names the new
\* storage and payloads and the number of thunk code pointers called.
assign(sl, hp, d, s, tIsReference) ==
  IF sl[s].tag \notin HeapTags
  THEN [slots |-> [sl EXCEPT ![d].val = sl[s].val], heap |-> hp, thunks |-> 0]
  ELSE IF move_if_rvalue(tIsReference) = "lvalue"
  THEN [slots |-> [sl EXCEPT ![d].val = sl[s].val], heap |-> ManagedCopy(hp, sl[s].val),
        thunks |-> 0]
  ELSE [slots |-> [sl EXCEPT ![d].val = sl[s].val, ![s].val = 0], heap |-> hp, thunks |-> 0]

\* any::destruct() on the object in slot d
destruct(sl, hp, d) ==
  IF sl[d].tag \in HeapTags THEN ManagedRelease(hp, sl[d].val) ELSE hp

Init ==
  /\ op = OpRec("none", "-", Nil, 0, Nil, 0, NoVal)
  /\ out = Ok(NoVal, 0)
  /\ slots = [s \in Slots |-> Dead]
  /\ heap = [h \in Payloads |-> Unallocated]
  /\ last = NoLife

\* No call has been made yet: every call of the model is made on fresh
\* operands, from the initial state.
Idle == op.name = "none"

\* Value(x) followed by the extraction of x's own host type.
RoundTrip ==
  /\ Idle
  /\ \E ty \in SourceTypes : \E x \in HostVals(ty) :
    /\ op' = OpRec("roundtrip", ty, Construct(ty, x), 0, Nil, 0, H(HostTy(ty), x))
    /\ out' = Extract(KindOf(ty), Construct(ty, x))
  /\ UNCHANGED lifeVars

\* any::unthunkVariant(a)
Force ==
  /\ Idle
  /\ \E tag \in BaseTags : \E v \in ValsOf(tag) : \E d \in 0..MaxThunkDepth :
    /\ op' = OpRec("force", "-", Mk(tag, v), d, Nil, 0, NoVal)
    /\ out' = LET r == unthunkVariant(Wrap(d, Mk(tag, v))) IN Ok(r.v, r.n)
  /\ UNCHANGED lifeVars

\* A conversion operator, rawPointer() or cast<T>().
ExtractOp ==
  /\ Idle
  /\ \E kind \in ExtractKinds : \E tag \in BaseTags : \E v \in ValsOf(tag) :
    \E d \in 0..MaxThunkDepth :
      /\ op' = OpRec("extract", kind, Mk(tag, v), d, Nil, 0, NoVal)
      /\ out' = Extract(kind, Wrap(d, Mk(tag, v)))
  /\ UNCHANGED lifeVars

\* The operand pairs of the binary operators: every pair of contents of one
\* tag (or of the two string tags), one pair for two differing tags.
OperandPair(s, v, t, w) == SameFamily(s, t) \/ (v = RepOf(s) /\ w = RepOf(t))

\* lhs op rhs, op a comparison
CompareOp ==
  /\ Idle
  /\ \E o \in CmpOps : \E s, t \in BaseTags : \E v \in ValsOf(s) : \E w \in ValsOf(t) :
    \E da, db \in 0..OperandDepth : \E j \in JunkSeeds :
      /\ OperandPair(s, v, t, w)
      /\ op' = OpRec("compare", o, Mk(s, v), da, Mk(t, w), db, NoVal)
      /\ out' = Compare(o, Wrap(da, Mk(s, v)), Wrap(db, Mk(t, w)), j)
  /\ UNCHANGED lifeVars

\* lhs op rhs, op an arithmetic operator
ArithOp ==
  /\ Idle
  /\ \E o \in ArithOps : \E s, t \in BaseTags : \E v \in ValsOf(s) : \E w \in ValsOf(t) :
    \E da, db \in 0..OperandDepth : \E j \in JunkSeeds :
      /\ OperandPair(s, v, t, w)
      /\ op' = OpRec("arith", o, Mk(s, v), da, Mk(t, w), db, NoVal)
      /\ out' = Arith(o, Wrap(da, Mk(s, v)), Wrap(db, Mk(t, w)), j)
  /\ UNCHANGED lifeVars

\* a[key] and a.contains(key), key a symbol or the null symbol.
MapGetOp ==
  /\ Idle
  /\ \E tag \in BaseTags : \E v \in ValsOf(tag) : \E d \in 0..MaxThunkDepth :
    \E key \in Symbols \cup {NullSymbol} :
      /\ tag = "Map" \/ v = RepOf(tag)
      /\ op' = OpRec("mapget", "-", Mk(tag, v), d, Nil, 0, H("symbol", key))
      /\ out' = MapGet(Wrap(d, Mk(tag, v)), key)
  /\ UNCHANGED lifeVars

ContainsOp ==
  /\ Idle
  /\ \E tag \in BaseTags : \E v \in ValsOf(tag) : \E d \in 0..MaxThunkDepth :
    \E key \in Symbols \cup {NullSymbol} :
      /\ tag = "Map" \/ v = RepOf(tag)
      /\ op' = OpRec("contains", "-", Mk(tag, v), d, Nil, 0, H("symbol", key))
      /\ out' = contains(Wrap(d, Mk(tag, v)), key)
  /\ UNCHANGED lifeVars

\* a[i] with i a Value
IndexOp ==
  /\ Idle
  /\ \E tag \in BaseTags : \E v \in ValsOf(tag) : \E i \in {0, 2, 3} :
    \E da, db \in 0..OperandDepth : \E j \in JunkSeeds :
      /\ tag = "Array" \/ v = RepOf(tag)
      /\ op' = OpRec("index", "-", Mk(tag, v), da, Mk("Integer", i), db, NoVal)
      /\ out' = IndexAny(Wrap(da, Mk(tag, v)), Wrap(db, Mk("Integer", i)), j)
  /\ UNCHANGED lifeVars

\* The arguments of the calls of the model: a scalar and an unforced thunk.
CallArg(k) == IF k = 0 THEN Mk("Integer", 7) ELSE Wrap(1, Mk("Boolean", TRUE))

\* f(arg)
Call1Op ==
  /\ Idle
  /\ \E tag \in BaseTags : \E v \in ValsOf(tag) : \E d \in 0..MaxThunkDepth :
    \E k \in 0..1 :
      /\ tag \in {"Function", "Closure"} \/ v = RepOf(tag)
      /\ op' = OpRec("call1", "-", Mk(tag, v), d, CallArg(k), 0, NoVal)
      /\ out' = Call1(Wrap(d, Mk(tag, v)), CallArg(k))
  /\ UNCHANGED lifeVars

\* f()
Call0Op ==
  /\ Idle
  /\ \E tag \in BaseTags : \E v \in ValsOf(tag) : \E d \in 0..MaxThunkDepth :
    /\ tag \in {"EffFunction", "EffClosure"} \/ v = RepOf(tag)
    /\ op' = OpRec("call0", "-", Mk(tag, v), d, Nil, 0, NoVal)
    /\ out' = Call0(Wrap(d, Mk(tag, v)))
  /\ UNCHANGED lifeVars

\* v op c and c op v, c a native constant
NativeOperatorOp ==
  /\ Idle
  /\ \E ty \in NativeTypes : \E o \in NativeOps(ty) : \E side \in {"vn", "nv"} :
    \E tag \in BaseTags : \E v \in ValsOf(tag) : \E c \in ValsOf(NativeTag(ty)) :
      \E d \in 0..OperandDepth : \E j \in JunkSeeds :
        /\ SameFamily(tag, NativeTag(ty)) \/ (v = RepOf(tag) /\ c = RepOf(NativeTag(ty)))
        /\ op' = OpRec("native", o, Mk(tag, v), d, Mk(NativeTag(ty), c), 0, H(ty, side))
        /\ out' = Native(o, ty, side, Wrap(d, Mk(tag, v)), c, j)
  /\ UNCHANGED lifeVars

\* -rhs
NegateOp ==
  /\ Idle
  /\ \E tag \in BaseTags : \E v \in ValsOf(tag) : \E d \in 0..MaxThunkDepth :
    \E j \in JunkSeeds :
      /\ op' = OpRec("negate", "-", Mk(tag, v), d, Nil, 0, NoVal)
      /\ out' = Negate(Wrap(d, Mk(tag, v)), j)
  /\ UNCHANGED lifeVars

\* a(unthunk)
AsThunkOp ==
  /\ Idle
  /\ \E tag \in BaseTags : \E v \in ValsOf(tag) : \E d \in 0..MaxThunkDepth :
    /\ op' = OpRec("asthunk", "-", Mk(tag, v), d, Nil, 0, NoVal)
    /\ out' = AsThunk(Wrap(d, Mk(tag, v)))
  /\ UNCHANGED lifeVars

Next ==
  \/ RoundTrip
  \/ Force
  \/ ExtractOp
  \/ CompareOp
  \/ ArithOp
  \/ MapGetOp
  \/ ContainsOp
  \/ IndexOp
  \/ Call1Op
  \/ Call0Op
  \/ NativeOperatorOp
  \/ NegateOp
  \/ AsThunkOp

Spec == Init /\ [][Next]_vars

\* ----------------------------------------- construction and destruction
\* The scalar Values of the lifecycle model: an Integer and a Thunk.
ScalarVal(k) == IF k = 0 THEN Mk("Integer", 3) ELSE Wrap(1, Mk("Integer", 3))

\* The record of a lifecycle step: h the payload of the source and old that
\* of the target, with their reference counts, all as they were before the
\* step; n the thunk code pointers the step called.
LifeRec(name, d, s, h, old, n) ==
  [name |-> name, dst |-> d, src |-> s, h |-> h, rc |-> RcOf(heap, h),
   old |-> old, oldrc |-> RcOf(heap, old), thunks |-> n]

\* any(x) for a scalar x, or a thunk
ConstructScalar(d) ==
  /\ ~slots[d].live
  /\ \E k \in 0..1 :
       slots' = [slots EXCEPT ![d] = [live |-> TRUE, tag |-> ScalarVal(k).tag,
                                      val |-> ScalarVal(k).val]]
  /\ heap' = heap
  /\ last' = LifeRec("Construct", d, 0, 0, 0, 0)
  /\ UNCHANGED callVars

\* any(x) for a heap-backed x: make_managed<T>(x)
ConstructHeap(d) ==
  /\ ~slots[d].live
  /\ \E tag \in HeapTags : \E h \in Payloads :
       /\ heap[h] = Unallocated
       /\ \A g \in Payloads : g < h => heap[g] # Unallocated
       /\ slots' = [slots EXCEPT ![d] = [live |-> TRUE, tag |-> tag, val |-> h]]
       /\ heap' = [heap EXCEPT ![h] = [tag |-> tag, rc |-> 1, freed |-> 0, elem |-> 0]]
       /\ last' = LifeRec("Construct", d, 0, 0, 0, 0)
  /\ UNCHANGED callVars

\* any(const any& other)
CopyConstruct(d, s) ==
  /\ ~slots[d].live /\ slots[s].live
  /\ LET tagged == [slots EXCEPT ![d] = [live |-> TRUE, tag |-> slots[s].tag, val |-> 0]]
         r == assign(tagged, heap, d, s, TRUE)
     IN  /\ slots' = r.slots
         /\ heap' = r.heap
         /\ last' = LifeRec("CopyConstruct", d, s, HandleOf(slots[s]), 0, r.thunks)
  /\ UNCHANGED callVars

\* any(any&& other)
MoveConstruct(d, s) ==
  /\ ~slots[d].live /\ slots[s].live
  /\ LET tagged == [slots EXCEPT ![d] = [live |-> TRUE, tag |-> slots[s].tag, val |-> 0]]
         r == assign(tagged, heap, d, s, FALSE)
     IN  /\ slots' = r.slots
         /\ heap' = r.heap
         /\ last' = LifeRec("MoveConstruct", d, s, HandleOf(slots[s]), 0, r.thunks)
  /\ UNCHANGED callVars

\* any::operator=(const any& rhs), this and rhs distinct objects
CopyAssign(d, s) ==
  /\ d # s /\ slots[d].live /\ slots[s].live
  /\ LET released == destruct(slots, heap, d)
         tagged == [slots EXCEPT ![d].tag = slots[s].tag]
         r == assign(tagged, released, d, s, TRUE)
     IN  /\ slots' = r.slots
         /\ heap' = r.heap
         /\ last' = LifeRec("CopyAssign", d, s, HandleOf(slots[s]), HandleOf(slots[d]), r.thunks)
  /\ UNCHANGED callVars

\* any::operator=(any&& rhs), this and rhs distinct objects
MoveAssign(d, s) ==
  /\ d # s /\ slots[d].live /\ slots[s].live
  /\ LET released == destruct(slots, heap, d)
         tagged == [slots EXCEPT ![d].tag = slots[s].tag]
         r == assign(tagged, released, d, s, FALSE)
     IN  /\ slots' = r.slots
         /\ heap' = r.heap
         /\ last' = LifeRec("MoveAssign", d, s, HandleOf(slots[s]), HandleOf(slots[d]), r.thunks)
  /\ UNCHANGED callVars

\* any::~any()
Destroy(d) ==
  /\ slots[d].live
  /\ heap' = destruct(slots, heap, d)
  /\ slots' = [slots EXCEPT ![d] = Dead]
  /\ last' = LifeRec("Destroy", d, 0, 0, HandleOf(slots[d]), 0)
  /\ UNCHANGED callVars

LifeNext ==
  \/ \E d \in Slots : ConstructScalar(d)
  \/ \E d \in Slots : ConstructHeap(d)
  \/ \E d, s \in Slots : CopyConstruct(d, s)
  \/ \E d, s \in Slots : MoveConstruct(d, s)
  \/ \E d, s \in Slots : CopyAssign(d, s)
  \/ \E d, s \in Slots : MoveAssign(d, s)
  \/ \E d \in Slots : Destroy(d)

\* The lifecycle of the objects of class any under the reference-counted
\* backend.
SpecLife == Init /\ [][LifeNext]_vars

\* ------------------------------------------------- forcing, step by step
\* Thunks whose code pointers may return each other.  The objects are the
\* static Values in the slots; a Thunk's code pointer is named by the slot
\* of the Value it returns a reference to.  g[k] = 0 makes the Value of slot
\* k the Integer 3, another g[k] the Thunk that returns the Value of slot
\* g[k].
ThunkGraphs == [Slots -> Slots \cup {0}]

StaticValue(g, k) ==
  IF g[k] = 0 THEN [live |-> TRUE, tag |-> "Integer", val |-> 3]
  ELSE [live |-> TRUE, tag |-> "Thunk", val |-> g[k]]

\* any::unthunkVariant(a), a the Value of slot k: `const any * variant = &a;`
ForceBegin ==
  /\ Idle
  /\ \E g \in ThunkGraphs : \E k \in Slots :
       /\ slots' = [s \in Slots |-> StaticValue(g, s)]
       /\ op' = OpRec("forcing", "-", Nil, 0, Nil, 0, NoVal)
       /\ out' = [status |-> "running", val |-> H("slot", k), thunks |-> 0, calls |-> 0]
  /\ UNCHANGED << heap, last >>

\* One pass of `while (variant->type == Type::Thunk)`:
\* `variant = &((*variant->t)(unthunk));`
ForceStep ==
  /\ out.status = "running"
  /\ slots[out.val.v].tag = "Thunk"
  /\ out' = [out EXCEPT !.val = H("slot", slots[out.val.v].val)]
  /\ UNCHANGED << op, slots, heap, last >>

\* The loop ends: `return *variant;`
ForceReturn ==
  /\ out.status = "running"
  /\ slots[out.val.v].tag # "Thunk"
  /\ out' = [out EXCEPT !.status = "ok"]
  /\ UNCHANGED << op, slots, heap, last >>

ForceNext ==
  \/ ForceBegin
  \/ ForceStep
  \/ ForceReturn

\* unthunkVariant runs on the one thread of the program: a pass of the loop
\* that can be made is made.
SpecForce == Init /\ [][ForceNext]_vars /\ WF_vars(ForceStep) /\ WF_vars(ForceReturn)

\* -------------------------------------------------- assignment from an alias
\* The assignment operators have no test for `this == &rhs`: destruct() runs
\* first, then assign(rhs) reads rhs.  When destruct() has released the
\* payload rhs's handle refers to, that read is of a destroyed handle: it
\* yields the stale handle, whose count is then raised in released memory
\* (seed 0), or an empty handle (seed 1).
AssignAfterRelease(sl, hp, d, h, tIsReference, j) ==
  IF h = 0 \/ hp[h].freed = 0
  THEN [slots |-> [sl EXCEPT ![d].val = h],
        heap |-> IF move_if_rvalue(tIsReference) = "lvalue" THEN ManagedCopy(hp, h) ELSE hp]
  ELSE IF j = 0 THEN [slots |-> [sl EXCEPT ![d].val = h], heap |-> ManagedCopy(hp, h)]
  ELSE [slots |-> [sl EXCEPT ![d].val = 0], heap |-> hp]

\* No live Value holds a handle to a released payload: the behaviour of the
\* program is defined so far.
Defined == \A s \in Slots : slots[s].live /\ HandleOf(slots[s]) # 0 => heap[HandleOf(slots[s])].freed = 0

\* a = a, a heap-backed: any::operator=(const any&) with &rhs == this
SelfCopyAssign(d) ==
  /\ slots[d].live /\ HandleOf(slots[d]) # 0
  /\ \E j \in JunkSeeds :
       LET r == AssignAfterRelease(slots, destruct(slots, heap, d), d, slots[d].val, TRUE, j)
       IN  /\ slots' = r.slots
           /\ heap' = r.heap
  /\ last' = LifeRec("SelfCopyAssign", d, d, HandleOf(slots[d]), HandleOf(slots[d]), 0)
  /\ UNCHANGED callVars

\* a = std::move(a), a heap-backed: any::operator=(any&&) with &rhs == this
SelfMoveAssign(d) ==
  /\ slots[d].live /\ HandleOf(slots[d]) # 0
  /\ \E j \in JunkSeeds :
       LET r == AssignAfterRelease(slots, destruct(slots, heap, d), d, slots[d].val, FALSE, j)
       IN  /\ slots' = r.slots
           /\ heap' = r.heap
  /\ last' = LifeRec("SelfMoveAssign", d, d, HandleOf(slots[d]), HandleOf(slots[d]), 0)
  /\ UNCHANGED callVars

\* any(array{x}), x the heap-backed Value of slot s: the new Array payload
\* stores a copy of x.
ConstructArrayOf(d, s) ==
  /\ ~slots[d].live /\ slots[s].live /\ HandleOf(slots[s]) # 0
  /\ \E h \in Payloads :
       /\ heap[h] = Unallocated
       /\ \A g \in Payloads : g < h => heap[g] # Unallocated
       /\ slots' = [slots EXCEPT ![d] = [live |-> TRUE, tag |-> "Array", val |-> h]]
       /\ heap' = [ManagedCopy(heap, slots[s].val) EXCEPT
                     ![h] = [tag |-> "Array", rc |-> 1, freed |-> 0, elem |-> slots[s].val]]
  /\ last' = LifeRec("Construct", d, 0, 0, 0, 0)
  /\ UNCHANGED callVars

\* a = a[0], a an Array whose element is heap-backed: any::operator=(const
\* any&) with rhs a Value stored inside this's own payload.
ElementAssign(d) ==
  /\ slots[d].live /\ slots[d].tag = "Array" /\ slots[d].val # 0
  /\ heap[slots[d].val].elem # 0
  /\ \E j \in JunkSeeds :
       LET g == heap[slots[d].val].elem
           tagged == [slots EXCEPT ![d].tag = heap[g].tag]
           r == AssignAfterRelease(tagged, destruct(slots, heap, d), d, g, TRUE, j)
       IN  /\ slots' = r.slots
           /\ heap' = r.heap
  /\ last' = LifeRec("ElementAssign", d, 0, heap[slots[d].val].elem, HandleOf(slots[d]), 0)
  /\ UNCHANGED callVars

AliasNext ==
  \/ Defined /\ LifeNext
  \/ Defined /\ \E d \in Slots : SelfCopyAssign(d)
  \/ Defined /\ \E d \in Slots : SelfMoveAssign(d)
  \/ Defined /\ \E d, s \in Slots : ConstructArrayOf(d, s)
  \/ Defined /\ \E d \in Slots : ElementAssign(d)

\* The lifecycle with assignments whose source is the target itself or is
\* stored inside the target's payload.
SpecAlias == Init /\ [][AliasNext]_vars

\* ================================================================ claims
SameValue(x, y) == x.tag = y.tag /\ x.val = y.val

\* The tag the constructor of a source type is to select.
SourceTag(ty) ==
  CASE ty = "int" -> "Integer"
    [] ty = "double" -> "Double"
    [] ty = "char" -> "Character"
    [] ty = "bool" -> "Boolean"
    [] ty = "literal" -> "StringLiteral"
    [] ty = "string" -> "String"
    [] ty = "array" -> "Array"
    [] ty = "map" -> "Map"
    [] ty = "data" -> "Data"
    [] ty = "pointer" -> "Pointer"
    [] OTHER -> "RawPointer"

\* C1: constructing a Value from a host value x of a supported source type
\* selects the tag of that type, and extracting the same host type from it
\* at once returns x, with no contract violation.
C1_RoundTrip ==
  op.name = "roundtrip" =>
    /\ op.a.tag = SourceTag(op.sub)
    /\ out.status = "ok"
    /\ out.val.ty = op.x.ty
    /\ out.val.v = op.x.v

C1_Witness ==
  /\ op.name = "roundtrip"
  /\ op.sub = "string"
  /\ op.x.v = <<97, 98>>
  /\ out.status = "ok"
  /\ out.val.v = <<97, 98>>

\* C2: forcing a chain of N >= 0 thunks that ends in a non-Thunk Value v
\* returns v whatever N is, never a Thunk, after calling each thunk of the
\* chain once (no callable at all for N = 0); forcing the result again
\* returns it unchanged and calls nothing.
C2_IterativeForcing ==
  op.name = "force" =>
    /\ out.status = "ok"
    /\ out.val.tag # "Thunk"
    /\ SameValue(out.val, op.a)
    /\ out.thunks = op.da
    /\ unthunkVariant(out.val).n = 0
    /\ SameValue(unthunkVariant(out.val).v, out.val)

C2_Witness ==
  /\ op.name = "force"
  /\ op.da >= 2
  /\ op.a.tag = "Integer"
  /\ out.val.tag = "Integer"
  /\ out.thunks = op.da

\* The lexicographic order of two character sequences.
LexLess(s, t) ==
  \E i \in 1..Len(t) :
    /\ i <= Len(s) + 1
    /\ \A k \in 1..(i - 1) : s[k] = t[k]
    /\ (i = Len(s) + 1 \/ s[i] < t[i])

ContentCmp(o, s, t) ==
  CASE o = "==" -> s = t
    [] o = "!=" -> s # t
    [] o = "<" -> LexLess(s, t)
    [] o = "<=" -> s = t \/ LexLess(s, t)
    [] o = ">" -> LexLess(t, s)
    [] OTHER -> s = t \/ LexLess(t, s)

\* C3: for two character sequences s and t and each comparison operator,
\* A op B is the comparison of s with t by content, whichever of
\* StringLiteral and String A and B are and in either operand order, and it
\* raises no contract violation.
C3_StringComparison ==
  (op.name = "compare" /\ op.a.tag \in StringTags /\ op.b.tag \in StringTags) =>
    /\ out.status = "ok"
    /\ out.val.v = ContentCmp(op.sub, op.a.val, op.b.val)

C3_Witness ==
  /\ op.name = "compare"
  /\ op.sub = "<="
  /\ op.a.tag = "StringLiteral"
  /\ op.b.tag = "String"
  /\ op.a.val = <<97, 98>>
  /\ op.b.val = <<97, 98>>
  /\ out.status = "ok"
  /\ out.val.v = TRUE

\* The keys of a map in memory, its sentinel left out.
KeysOf(m) == { m[i].first : i \in 1..(Len(m) - 1) }

\* C4: on a map with at least one entry and unique keys, lookup by k returns
\* the Value paired with k when k is a key and is the "map key not found"
\* contract violation otherwise; contains(k) is true exactly when the lookup
\* by k succeeds and never fails; the null symbol of the sentinel is no key.
C4_MapLookup ==
  (op.name \in {"mapget", "contains"} /\ op.a.tag = "Map") =>
    /\ op.name = "mapget" /\ op.x.v \in KeysOf(op.a.val) =>
         /\ out.status = "ok"
         /\ \E i \in 1..(Len(op.a.val) - 1) :
              op.a.val[i].first = op.x.v /\ SameValue(out.val, op.a.val[i].second)
    /\ op.name = "mapget" /\ op.x.v \notin KeysOf(op.a.val) => out.status = "abort"
    /\ op.name = "contains" =>
         /\ out.status = "ok"
         /\ out.val.v = (op.x.v \in KeysOf(op.a.val))
         /\ out.val.v = (MapGet(Wrap(op.da, op.a), op.x.v).status = "ok")

C4_Witness ==
  /\ op.name = "mapget"
  /\ op.a.tag = "Map"
  /\ Len(op.a.val) = 3
  /\ op.x.v = op.a.val[2].first
  /\ op.da > 0
  /\ out.status = "ok"

\* n is the C++ quotient x / y: it truncates toward zero.
IsQuot(n, x, y) ==
  /\ Abs(x - n * y) < Abs(y)
  /\ (x - n * y = 0 \/ (x - n * y > 0) = (x > 0))

\* n is the C++ remainder x % y: it has the sign of x.
IsRem(n, x, y) ==
  /\ Abs(n) < Abs(y)
  /\ (n = 0 \/ (n > 0) = (x > 0))
  /\ (x - n) % Abs(y) = 0

\* n is x o y computed on the integers.
IsResult(o, n, x, y) ==
  CASE o = "+" -> n = x + y
    [] o = "-" -> n = x - y
    [] o = "*" -> n = x * y
    [] o = "/" -> IsQuot(n, x, y)
    [] OTHER -> IsRem(n, x, y)

\* Where the result of x o y on two chars can lie: quotient and remainder
\* are no larger than the operands.
CharCandidates(o, x, y) ==
  CASE o = "+" -> {x + y}
    [] o = "-" -> {x - y}
    [] o = "*" -> {x * y}
    [] OTHER -> CHAR_MIN..(-CHAR_MIN)

\* The native operation is defined on int: no division by zero, no overflow.
IntDefined(o, x, y) == ~(o \in {"/", "%"} /\ y = 0) /\ ~IntOverflows(o, x, y)

\* The sign of x - y.
Sign(x, y) == IF x < y THEN -1 ELSE IF x > y THEN 1 ELSE 0

\* f is x o y on the fractions.
IsDoubleResult(o, f, x, y) ==
  /\ f.d > 0
  /\ CASE o = "+" -> f.n * x.d * y.d = (x.n * y.d + y.n * x.d) * f.d
       [] o = "-" -> f.n * x.d * y.d = (x.n * y.d - y.n * x.d) * f.d
       [] o = "*" -> f.n * x.d * y.d = x.n * y.n * f.d
       [] OTHER -> f.n * x.d * y.n = x.n * y.d * f.d

\* C5: on two Values of one tag, each arithmetic operator returns the native
\* result on the payloads, wherever that is defined, in a Value of the
\* operands' tag (a Character result narrowed back to char, the Integer
\* quotient truncated toward zero), and each comparison returns the native
\* comparison.
C5_NativeSemantics ==
  (op.name \in {"compare", "arith"} /\ op.a.tag = op.b.tag) =>
    /\ op.name = "arith" /\ op.a.tag = "Integer" /\ IntDefined(op.sub, op.a.val, op.b.val) =>
         /\ out.status = "ok"
         /\ out.val.tag = "Integer"
         /\ IsResult(op.sub, out.val.val, op.a.val, op.b.val)
    /\ op.name = "arith" /\ op.a.tag = "Character" /\ (op.sub \in {"/", "%"} => op.b.val # 0) =>
         /\ out.status = "ok"
         /\ out.val.tag = "Character"
         /\ CHAR_MIN <= out.val.val /\ out.val.val <= CHAR_MAX
         /\ \E n \in CharCandidates(op.sub, op.a.val, op.b.val) :
              /\ (n - out.val.val) % 256 = 0
              /\ IsResult(op.sub, n, op.a.val, op.b.val)
    /\ op.name = "arith" /\ op.a.tag = "Double" /\ op.sub # "%"
         /\ (op.sub = "/" => op.b.val.n # 0) =>
         /\ out.status = "ok"
         /\ out.val.tag = "Double"
         /\ IsDoubleResult(op.sub, out.val.val, op.a.val, op.b.val)
    /\ op.name = "compare" /\ op.a.tag \in {"Integer", "Character", "Pointer"} =>
         /\ out.status = "ok"
         /\ out.val.v = IntCmp(op.sub, Sign(op.a.val, op.b.val), 0)
    /\ op.name = "compare" /\ op.a.tag = "Double" =>
         /\ out.status = "ok"
         /\ out.val.v = IntCmp(op.sub, Sign(op.a.val.n * op.b.val.d, op.b.val.n * op.a.val.d), 0)
    /\ op.name = "compare" /\ op.a.tag = "Boolean" =>
         /\ out.status = "ok"
         /\ out.val.v = IntCmp(op.sub, Sign(BoolInt(op.a.val), BoolInt(op.b.val)), 0)

C5_Witness ==
  /\ op.name = "arith"
  /\ op.sub = "/"
  /\ op.a.tag = "Integer" /\ op.b.tag = "Integer"
  /\ op.a.val = 7 /\ op.b.val = 2
  /\ out.status = "ok"
  /\ out.val.tag = "Integer"
  /\ out.val.val = 3

\* C6: every binary operator applied to two Values whose forced tags differ,
\* other than a StringLiteral with a String, is a contract violation.
C6_MismatchRejected ==
  (/\ op.name \in {"compare", "arith"}
   /\ op.a.tag # op.b.tag
   /\ ~(op.a.tag \in StringTags /\ op.b.tag \in StringTags)) => out.status = "abort"

\* The number of live objects whose handle refers to payload h.
Referrers(h) == Cardinality({ s \in Slots : slots[s].live /\ HandleOf(slots[s]) = h })

Copies == { "CopyConstruct", "CopyAssign" }

Moves == { "MoveConstruct", "MoveAssign" }

\* Each payload's reference count is the number of live objects referring
\* to it.
C7_Accounting == \A h \in Payloads : heap[h].rc = Referrers(h)

\* Copying raises the source payload's count by one, less the handle the
\* target released when it held the same payload.
C7_CopyRaisesByOne ==
  (last.name \in Copies /\ last.h # 0) =>
    heap[last.h].rc = last.rc + 1 - (IF last.old = last.h THEN 1 ELSE 0)

\* Moving transfers the handle: the count is not raised.
C7_MoveKeepsCount ==
  (last.name \in Moves /\ last.h # 0 /\ last.old # last.h) => heap[last.h].rc = last.rc

\* An assignment or a destruction releases the one handle the target held.
C7_TargetReleased ==
  (last.old # 0 /\ last.old # last.h) => heap[last.old].rc = last.oldrc - 1

\* A payload is released once, when its count reaches zero.
C7_ReleasedOnce ==
  \A h \in Payloads :
    /\ heap[h].freed <= 1
    /\ heap[h].freed = 1 <=> (heap[h] # Unallocated /\ heap[h].rc = 0)

\* C7: after any sequence of constructions, copies, moves, assignments
\* between distinct objects and destructions, each payload's count is the
\* number of live Values referring to it; a copy raises it by one, a move
\* does not raise it, an assignment releases the target's handle, and the
\* payload is released exactly once.
C7_RefCounting ==
  /\ C7_Accounting
  /\ C7_CopyRaisesByOne
  /\ C7_MoveKeepsCount
  /\ C7_TargetReleased
  /\ C7_ReleasedOnce

\* C8: an extraction succeeds exactly when the tag of the fully forced Value
\* is the one requested, and is a contract violation otherwise.
C8_ExtractionChecksForcedTag ==
  op.name = "extract" =>
    /\ out.status \in {"ok", "abort"}
    /\ out.status = "ok" <=> op.a.tag \in KindTags(op.sub)

\* C9: a one-argument call forces the callee, then runs the computation of a
\* Closure or of a Function once on the argument, the same result for both,
\* and is a contract violation on any other tag; a zero-argument call does
\* the same over EffClosure and EffFunction.
C9_CallableDispatch ==
  /\ op.name = "call1" =>
       IF op.a.tag \in {"Closure", "Function"}
       THEN /\ out.status = "ok"
            /\ out.calls = 1
            /\ out.thunks = op.da
            /\ IF op.a.val = "identity" THEN SameValue(out.val, op.b)
               ELSE SameValue(out.val, Mk("Integer", 3))
       ELSE out.status = "abort" /\ out.calls = 0
  /\ op.name = "call0" =>
       IF op.a.tag \in {"EffClosure", "EffFunction"}
       THEN /\ out.status = "ok"
            /\ out.calls = 1
            /\ out.thunks = op.da
            /\ IF op.a.val = "null" THEN SameValue(out.val, Mk("RawPointer", 0))
               ELSE SameValue(out.val, Mk("Integer", 3))
       ELSE out.status = "abort" /\ out.calls = 0

C9_Witness ==
  /\ op.name = "call1"
  /\ op.a.tag = "Closure"
  /\ op.a.val = "identity"
  /\ op.da = 2
  /\ op.b.tag = "Integer"
  /\ out.status = "ok"
  /\ out.val.tag = "Integer"
  /\ out.val.val = 7

\* Copying, moving or assigning a Thunk calls no thunk and leaves the target
\* a Thunk with the same code pointer; destroying one calls none either.
C10_CopyKeepsThunk ==
  /\ last.thunks = 0
  /\ (last.name \in Copies \cup Moves /\ slots[last.src].tag = "Thunk") =>
       /\ slots[last.dst].tag = "Thunk"
       /\ slots[last.dst].val = slots[last.src].val

SameHost(x, y) == x.ty = y.ty /\ x.v = y.v

\* Two outcomes agree, their results host values (host) or Values.
SameOutcome(x, y, host) ==
  /\ x.status = y.status
  /\ x.status = "ok" => IF host THEN SameHost(x.val, y.val) ELSE SameValue(x.val, y.val)

\* A content-inspecting call that returns has called every thunk of its
\* operands' chains, and the call does what it does on the operands once
\* forced.
C10_InspectionForces ==
  /\ (/\ op.name \in {"extract", "mapget", "contains", "call1", "call0", "compare",
                       "arith", "index"}
      /\ out.status = "ok") => out.thunks = op.da + op.db
  /\ op.name = "extract" => SameOutcome(out, Extract(op.sub, op.a), TRUE)
  /\ op.name = "mapget" => SameOutcome(out, MapGet(op.a, op.x.v), FALSE)
  /\ op.name = "contains" => SameOutcome(out, contains(op.a, op.x.v), TRUE)
  /\ op.name = "call1" => SameOutcome(out, Call1(op.a, op.b), FALSE)
  /\ op.name = "call0" => SameOutcome(out, Call0(op.a), FALSE)
  /\ op.name = "compare" =>
       \E j \in JunkSeeds : SameOutcome(out, Compare(op.sub, op.a, op.b, j), TRUE)
  /\ op.name = "arith" =>
       \E j \in JunkSeeds : SameOutcome(out, Arith(op.sub, op.a, op.b, j), FALSE)
  /\ op.name = "index" =>
       \E j \in JunkSeeds : SameOutcome(out, IndexAny(op.a, op.b, j), FALSE)

\* C10: copying, moving, assigning and destroying a Thunk never calls it and
\* keeps it a Thunk with the same callable; every content-inspecting
\* operation calls the chain and acts on the fully forced Value of each of
\* its operands.
C10_Laziness == C10_CopyKeepsThunk /\ C10_InspectionForces

\* The extraction, as the native type ty, of the Value-to-Value form of
\* v op c (side "vn") or c op v (side "nv"), b the Value made of c.
ValueForm(o, ty, side, v, b, j) ==
  LET r == IF o \in CmpOps
           THEN (IF side = "vn" THEN Compare(o, v, b, j) ELSE Compare(o, b, v, j))
           ELSE (IF side = "vn" THEN Arith(o, v, b, j) ELSE Arith(o, b, v, j))
  IN  IF o \in CmpOps \/ r.status # "ok" THEN r
      ELSE [Extract(ty, r.val) EXCEPT !.thunks = r.thunks]

\* Two outcomes agree: the same status and, when they return, the same
\* content.
SameResult(x, y) == x.status = y.status /\ (x.status = "ok" => x.val.v = y.val.v)

\* C11: v op n is the extraction of v op Value(n), and n op v that of
\* Value(n) op v, for every operator declared against n's native type; both
\* force v and both are contract violations on the same inputs.
C11_NativeFormsAgree ==
  op.name = "native" =>
    /\ \E j \in JunkSeeds :
         SameResult(out, ValueForm(op.sub, op.x.ty, op.x.v, Wrap(op.da, op.a), op.b, j))
    /\ out.status = "ok" => out.thunks = op.da

\* The tags a binary arithmetic operator is defined on.
ArithDomain(o) ==
  CASE o = "+" -> {"Integer", "Double", "Character", "StringLiteral", "String"}
    [] o = "%" -> {"Integer", "Character"}
    [] OTHER -> {"Integer", "Double", "Character"}

\* C12: % returns only on two Integers or two Characters, unary negate only
\* on an Integer or a Double; -, *, / and + on an operand whose forced tag is
\* outside the operator's domain are contract violations.
C12_OperatorDomains ==
  /\ (op.name = "arith" /\ op.sub = "%"
        /\ ~(op.a.tag = op.b.tag /\ op.a.tag \in ArithDomain("%"))) => out.status = "abort"
  /\ (op.name = "arith"
        /\ (op.a.tag \notin ArithDomain(op.sub) \/ op.b.tag \notin ArithDomain(op.sub)))
       => out.status = "abort"
  /\ (op.name = "negate" /\ op.a.tag \notin {"Integer", "Double"}) => out.status = "abort"

\* C13: the as-thunk invocation of a Thunk, whatever the depth of its chain,
\* returns the final non-Thunk Value, the one unthunkVariant returns; on a
\* Value that is not a Thunk it is a contract violation.
C13_AsThunkForces ==
  op.name = "asthunk" =>
    IF op.da = 0 THEN out.status = "abort"
    ELSE /\ out.status = "ok"
         /\ out.val.tag # "Thunk"
         /\ SameValue(out.val, unthunkVariant(Wrap(op.da, op.a)).v)

\* C14: forcing any thunk chain, a cyclic one included, eventually returns a
\* Value that is not a Thunk or ends in a fatal abort; it never runs forever.
C14_ForcingFinishes ==
  (out.status = "running") ~>
    (op.name = "forcing" /\ out.status \in {"ok", "abort"}
       /\ slots[out.val.v].tag # "Thunk")

\* The number of live Values referring to payload h: the objects, and the
\* Values stored inside live payloads.
AllReferrers(h) ==
  Referrers(h) + Cardinality({ p \in Payloads : heap[p].rc > 0 /\ heap[p].freed = 0
                                               /\ heap[p].elem = h })

\* C15: after assigning a heap-backed Value from itself, or from a Value
\* stored inside the target's own payload, the target holds the source's
\* payload, that payload has not been released, and its count is the number
\* of live Values referring to it.
C15_AliasedAssignment ==
  (last.name \in {"SelfCopyAssign", "SelfMoveAssign", "ElementAssign"}) =>
    /\ slots[last.dst].val = last.h
    /\ heap[last.h].freed = 0
    /\ heap[last.h].rc = AllReferrers(last.h)

====
